---- MODULE Spec2Model ----
(***************************************************************************)
(* A model of the download organizer: the batch organizer of organizer.py  *)
(* (classification, conflict resolution, the mover, the files and folders  *)
(* passes) and the event handler of watch_downloads.py.                    *)
(*                                                                         *)
(* Assumptions of the model, all about the environment and none about the  *)
(* code: the filesystem is case-sensitive (POSIX), the source directory    *)
(* and the destination tree are disjoint, the destination folders hold     *)
(* what the organizer or the user put there, and a failing move leaves the *)
(* filesystem as it was.                                                   *)
(***************************************************************************)
EXTENDS Integers, Sequences, FiniteSets, TLC

VARIABLES
    config,     \* the loaded configuration (immutable during a run)
    src,        \* the source directory: name -> entry
    dstDirs,    \* the destination folders that exist
    dst,        \* the destination tree: <<folder, name>> -> entry
    stats,      \* OrganizationStats of the current organizer instance
    run,        \* DownloadOrganizer.run: position, flags, listing snapshot
    processing, \* DownloadEventHandler.processing
    queue,      \* events delivered by the observer and not yet dispatched
    handler,    \* per dispatch thread: the position of the running callback
    delivered,  \* number of events the observer has delivered
    evlog,      \* history: one record per callback that has returned
    probe,      \* the results of the direct _resolve_conflict calls
    nextId,     \* identity given to the next entry the environment creates
    faults,     \* number of environment failures injected so far
    dst0,       \* history: the destination tree before the organizer acted
    moves,      \* history: one record per call of _move_file / _move_folder
    hist        \* history: one record per finished run

\* the state of the watcher
watchVars == <<processing, queue, handler, delivered, evlog>>

vars == <<config, src, dstDirs, dst, stats, run, watchVars, probe, nextId,
          faults, dst0, moves, hist>>

----------------------------------------------------------------------------
(* Bounds of the model. *)

\* entries the environment creates after the initial state
MaxCreated == 1
\* entries of the source directory in the initial state
MaxSrc == 2
\* environment failures (permission denied, vanished file) injected
MaxFaults == 1
\* organizer runs (instances) in one behaviour
MaxRuns == 2
\* events the observer delivers in one behaviour
MaxEvents == 3
\* categories of the category tables the classifier is called with
MaxCats == 2
\* direct calls of _get_destination_for_file in one behaviour
MaxClassified == 2
\* direct calls of _is_compressed_folder in one behaviour
MaxChecked == 2
\* files a traversal of a folder yields
MaxWalk == 3
\* direct calls of _resolve_conflict in one behaviour
MaxProbes == 4
\* entries of the destination folder probed by the direct calls
MaxTaken == 3

----------------------------------------------------------------------------
(* Names.  A file name is its pathlib stem and suffix; the stem is a base  *)
(* text followed by the "_<counter>" parts that conflict resolution has    *)
(* appended, so f"{stem}_{counter}{suffix}" appends one counter to sfx.    *)

Nm(base, sfx, ext) == [base |-> base, sfx |-> sfx, ext |-> ext]

\* f"{stem}_{counter}{suffix}"
Renamed(name, counter) == [name EXCEPT !.sfx = Append(@, counter)]

\* str.lower() on the suffixes the model uses
Lower(e) ==
    CASE e = ".PDF" -> ".pdf"
      [] e = ".Pdf" -> ".pdf"
      [] e = ".JPG" -> ".jpg"
      [] e = ".ZIP" -> ".zip"
      [] e = ".TMP" -> ".tmp"
      [] OTHER -> e

\* name.startswith('.'): the bases of the model that begin with a dot
DotBases == {".DS_Store", ".cache"}

\* name.startswith('~')
TildeBases == {"~lock"}

StartsWithDot(name) == name.base \in DotBases

\* dict.get(key, default)
Get(d, key, default) == IF key \in DOMAIN d THEN d[key] ELSE default

\* the empty dict
EmptyDict == [k \in {} |-> TRUE]

----------------------------------------------------------------------------
(* Filesystem entries. A file has an identity (its content) and a size     *)
(* (st_size); a directory also has the suffixes of the files rglob('*')    *)
(* yields, in order, with "!" standing for a traversal error, and the      *)
(* entries moved inside it.                                                *)

Sized(id, size) ==
    [kind |-> "file", id |-> id, size |-> size, walk |-> <<>>, inside |-> {}]

File(id) == Sized(id, 1)

Dir(id, walk) ==
    [kind |-> "dir", id |-> id, size |-> 0, walk |-> walk, inside |-> {}]

\* Path.exists() of folder/name in the destination tree
Exists(dirs, d, folder, name) == folder \in dirs /\ <<folder, name>> \in DOMAIN d


Put(f, k, v) == [x \in DOMAIN f \cup {k} |-> IF x = k THEN v ELSE f[x]]

Without(f, k) == [x \in DOMAIN f \ {k} |-> f[x]]

\* the part of the state the organizer's methods read and write
World(s, dirs, d, st) == [src |-> s, dirs |-> dirs, dst |-> d, stats |-> st]

\* OrganizationStats()
NewStats ==
    [files_moved |-> 0, folders_moved |-> 0, errors |-> 0, skipped |-> 0,
     conflicts_resolved |-> 0, categories |-> EmptyDict]

\* defaultdict(int): categories[label] += 1
Bump(cats, label) ==
    IF label \in DOMAIN cats
    THEN [cats EXCEPT ![label] = @ + 1]
    ELSE Put(cats, label, 1)

----------------------------------------------------------------------------
(* 4.1 Classifier: DownloadOrganizer._get_destination_for_file *)

\* the category table, an ordered sequence of <<category, info>> (a Python
\* dict iterates in insertion order)
FileTypes(cfg) == Get(cfg, "file_types", <<>>)

\* for category, info in file_types.items(): if extension in extensions
RECURSIVE FirstMatch(_, _, _)
FirstMatch(ft, extension, i) ==
    IF i > Len(ft) THEN 0
    ELSE IF extension \in Get(ft[i][2], "extensions", {}) THEN i
    ELSE FirstMatch(ft, extension, i + 1)

\* a classifier that flattens the table into one extension -> category map,
\* in which a later category replaces an earlier one
ClassifyLastMatch(cfg, name) ==
    LET extension == Lower(name.ext)
        ft == FileTypes(cfg)
        M == {i \in 1..Len(ft) : extension \in Get(ft[i][2], "extensions", {})}
    IN  IF M # {}
        THEN LET i == CHOOSE x \in M : \A y \in M : y <= x
             IN  [label |-> ft[i][1],
                  folder |-> Get(ft[i][2], "destination", ft[i][1])]
        ELSE [label |-> "other",
              folder |-> Get(cfg, "other_destination", "Other")]

\* the label counted in stats.categories and the destination folder
\* (relative to base_destination) of a file name
Classify(cfg, name) ==
    LET extension == Lower(name.ext)
        ft == FileTypes(cfg)
        i == FirstMatch(ft, extension, 1)
    IN  IF i > 0
        THEN [label |-> ft[i][1],
              folder |-> Get(ft[i][2], "destination", ft[i][1])]
        ELSE [label |-> "other",
              folder |-> Get(cfg, "other_destination", "Other")]

\* a classifier that counts no category
GetDestinationForFileUncounted(cfg, st, name) ==
    [folder |-> Classify(cfg, name).folder, stats |-> st]

\* _get_destination_for_file: the folder, and the category count it bumps
GetDestinationForFile(cfg, st, name) ==
    LET c == Classify(cfg, name)
    IN  [folder |-> c.folder,
         stats |-> [st EXCEPT !.categories = Bump(@, c.label)]]

----------------------------------------------------------------------------
(* 4.2 Conflict resolver: DownloadOrganizer._resolve_conflict *)

\* while dest_path.exists(): dest_path = parent / f"{stem}_{counter}{suffix}"
RECURSIVE ProbeFrom(_, _, _, _, _)
ProbeFrom(dirs, d, folder, name, counter) ==
    IF Exists(dirs, d, folder, Renamed(name, counter))
    THEN ProbeFrom(dirs, d, folder, name, counter + 1)
    ELSE Renamed(name, counter)

\* a resolver that counts the conflict and keeps the desired name
ResolveConflictNoProbe(dirs, d, st, folder, name) ==
    IF ~Exists(dirs, d, folder, name)
    THEN [name |-> name, stats |-> st]
    ELSE [name |-> name,
          stats |-> [st EXCEPT !.conflicts_resolved = @ + 1]]

\* a resolver whose counter starts one too high
ResolveConflictOffByOne(dirs, d, st, folder, name) ==
    IF ~Exists(dirs, d, folder, name)
    THEN [name |-> name, stats |-> st]
    ELSE [name |-> ProbeFrom(dirs, d, folder, name, 2),
          stats |-> [st EXCEPT !.conflicts_resolved = @ + 1]]

\* a resolver that counts once per probe iteration
ResolveConflictPerProbe(dirs, d, st, folder, name) ==
    IF ~Exists(dirs, d, folder, name)
    THEN [name |-> name, stats |-> st]
    ELSE LET new == ProbeFrom(dirs, d, folder, name, 1)
         IN  [name |-> new,
              stats |-> [st EXCEPT !.conflicts_resolved =
                                      @ + new.sfx[Len(new.sfx)]]]

\* the collision-free name, and the statistics after the call
ResolveConflict(dirs, d, st, folder, name) ==
    IF ~Exists(dirs, d, folder, name)
    THEN [name |-> name, stats |-> st]
    ELSE [name |-> ProbeFrom(dirs, d, folder, name, 1),
          stats |-> [st EXCEPT !.conflicts_resolved = @ + 1]]

\* _should_skip_file
\* a skip rule that lets every entry through
ShouldSkipNothing(cfg, name) == FALSE

\* _should_skip_file(file_path)
ShouldSkipFile(cfg, name) ==
    Get(Get(cfg, "settings", EmptyDict), "skip_hidden_files", TRUE)
        /\ StartsWithDot(name)

----------------------------------------------------------------------------
(* 4.3 Mover: shutil.move, DownloadOrganizer._move_file and _move_folder *)

\* self.config.get('settings', {}).get(key, True)
Setting(cfg, key) == Get(Get(cfg, "settings", EmptyDict), key, TRUE)

\* shutil.move(source, folder/target) of the source entry called name. The
\* result is ok = FALSE (an exception, nothing changed) or ok = TRUE and the
\* world after the move.
\*  - the target is an existing directory: the entry is moved inside it,
\*    unless an entry of that name is there ("Destination path already
\*    exists");
\*  - a file: os.rename, which replaces an existing file and fails when the
\*    folder is missing (and so does the copy2 fallback);
\*  - a directory: os.rename, which fails onto an existing file; when the
\*    folder is missing the copytree fallback creates it (os.makedirs).
ShutilMove(w, name, folder, target) ==
    LET e == w.src[name]
        at == <<folder, target>>
        there == Exists(w.dirs, w.dst, folder, target)
        gone == [w EXCEPT !.src = Without(@, name)]
        failed == [ok |-> FALSE, w |-> w]
    IN  IF name \notin DOMAIN w.src THEN failed
        ELSE IF there /\ w.dst[at].kind = "dir"
        THEN IF \E x \in w.dst[at].inside : x.name = name
             THEN failed
             ELSE [ok |-> TRUE,
                   w |-> [gone EXCEPT !.dst[at].inside =
                                @ \cup {[name |-> name, entry |-> e]}]]
        ELSE IF e.kind = "file"
        THEN IF folder \notin w.dirs
             THEN failed
             ELSE [ok |-> TRUE, w |-> [gone EXCEPT !.dst = Put(@, at, e)]]
        ELSE IF there
             THEN failed
             ELSE [ok |-> TRUE,
                   w |-> [gone EXCEPT !.dst = Put(@, at, e),
                                      !.dirs = @ \cup {folder}]]

\* The body shared by _move_file and _move_folder, which differ in the
\* counter they increase. fault is the environment's part: "none", "mkdir"
\* (mkdir raises) or "move" (shutil.move raises PermissionError or
\* shutil.Error). The result tells the outcome and the name the destination
\* resolved to.
MoveEntry(cfg, w, name, folder, dry_run, fault, counter) ==
    LET mk == Setting(cfg, "create_directories") /\ ~dry_run
        error(v) == [ok |-> FALSE, target |-> name,
                     w |-> [v EXCEPT !.stats.errors = @ + 1]]
    IN  IF mk /\ fault = "mkdir" THEN error(w)
        ELSE
        LET w1 == IF mk THEN [w EXCEPT !.dirs = @ \cup {folder}] ELSE w
            r == IF Setting(cfg, "handle_conflicts")
                 THEN ResolveConflict(w1.dirs, w1.dst, w1.stats, folder, name)
                 ELSE [name |-> name, stats |-> w1.stats]
            w2 == [w1 EXCEPT !.stats = r.stats]
            done(v) == [ok |-> TRUE, target |-> r.name,
                        w |-> [v EXCEPT !.stats[counter] = @ + 1]]
        IN  IF dry_run THEN done(w2)
            ELSE IF fault = "move"
            THEN [error(w2) EXCEPT !.target = r.name]
            ELSE LET m == ShutilMove(w2, name, folder, r.name)
                 IN  IF m.ok THEN done(m.w)
                     ELSE [error(w2) EXCEPT !.target = r.name]

\* a mover that creates the destination folder in a dry run too
MoveFileDryMkdir(cfg, w, name, folder, dry_run, fault) ==
    LET m == MoveEntry(cfg, w, name, folder, dry_run, fault, "files_moved")
    IN  IF Setting(cfg, "create_directories")
        THEN [m EXCEPT !.w.dirs = @ \cup {folder}]
        ELSE m

\* a mover whose except branch forgets to count the error
MoveFileErrorUncounted(cfg, w, name, folder, dry_run, fault) ==
    LET m == MoveEntry(cfg, w, name, folder, dry_run, fault, "files_moved")
    IN  IF m.ok THEN m ELSE [m EXCEPT !.w.stats.errors = @ - 1]

\* a mover whose except branch runs after the increment of files_moved
MoveFileErrorAsMoved(cfg, w, name, folder, dry_run, fault) ==
    LET m == MoveEntry(cfg, w, name, folder, dry_run, fault, "files_moved")
    IN  IF m.ok THEN m ELSE [m EXCEPT !.w.stats.files_moved = @ + 1]

\* a mover that leaves the moved file in the source as well
MoveFileCopies(cfg, w, name, folder, dry_run, fault) ==
    LET m == MoveEntry(cfg, w, name, folder, dry_run, fault, "files_moved")
    IN  [m EXCEPT !.w.src = w.src]

\* _move_file(source, destination_folder, dry_run)
MoveFile(cfg, w, name, folder, dry_run, fault) ==
    MoveEntry(cfg, w, name, folder, dry_run, fault, "files_moved")

\* _move_folder(source, destination_folder, dry_run)
MoveFolder(cfg, w, name, folder, dry_run, fault) ==
    MoveEntry(cfg, w, name, folder, dry_run, fault, "folders_moved")

\* _is_compressed_folder: the extensions of the categories whose destination
\* text contains "compressed"
CompressedDests == {"Compressed", "compressed files"}

CompressedExts(cfg) ==
    LET ft == FileTypes(cfg)
    IN  UNION {Get(ft[i][2], "extensions", {}) :
                 i \in {j \in 1..Len(ft) :
                          Get(ft[j][2], "destination", "") \in CompressedDests}}

\* rglob('*') yields walk[1], walk[2], ...; "!" is the PermissionError or
\* OSError that ends the traversal with the answer False
RECURSIVE WalkFinds(_, _, _)
WalkFinds(walk, exts, i) ==
    IF i > Len(walk) \/ walk[i] = "!" THEN FALSE
    ELSE IF Lower(walk[i]) \in exts THEN TRUE
    ELSE WalkFinds(walk, exts, i + 1)

\* a traversal that goes on past an error
RECURSIVE WalkFindsPastErrors(_, _, _)
WalkFindsPastErrors(walk, exts, i) ==
    IF i > Len(walk) THEN FALSE
    ELSE IF walk[i] # "!" /\ Lower(walk[i]) \in exts THEN TRUE
    ELSE WalkFindsPastErrors(walk, exts, i + 1)

\* a predicate that recovers from a traversal error by going on
IsCompressedFolderPastErrors(cfg, name, e) ==
    \/ Lower(name.ext) \in CompressedExts(cfg)
    \/ WalkFindsPastErrors(e.walk, CompressedExts(cfg), 1)

\* _is_compressed_folder(folder_path)
IsCompressedFolder(cfg, name, e) ==
    \/ Lower(name.ext) \in CompressedExts(cfg)
    \/ WalkFinds(e.walk, CompressedExts(cfg), 1)

----------------------------------------------------------------------------
(* The environment's failures. *)

Faults == {"none", "mkdir", "move"}

\* a failure the environment can inject into this move: shutil.move is only
\* run in a live move, and mkdir(parents=True, exist_ok=True) only has
\* something to do, and so to fail at, when the folder is missing
CanFail(cfg, folder, dry_run, fault) ==
    \/ fault = "none"
    \/ /\ faults < MaxFaults
       /\ ~dry_run
       /\ fault = "mkdir" =>
             Setting(cfg, "create_directories") /\ folder \notin dstDirs

Cost(fault) == IF fault = "none" THEN 0 ELSE 1

\* the history record of one call of the mover; tag tells the calls of one
\* entry name apart (the number of the run, or of the event, that made it),
\* taken whether the desired path existed when the mover was called
MoveRecord(tag, kind, name, e, folder, dry_run, m) ==
    [tag |-> tag, kind |-> kind, name |-> name, id |-> e.id, folder |-> folder,
     target |-> m.target, taken |-> Exists(dstDirs, dst, folder, name),
     ok |-> m.ok, dry_run |-> dry_run]

\* the organizer's part of the state after a step that ends in world w
SetWorld(w) ==
    /\ src' = w.src
    /\ dstDirs' = w.dirs
    /\ dst' = w.dst
    /\ stats' = w.stats

Here == World(src, dstDirs, dst, stats)

----------------------------------------------------------------------------
(* 4.4 Organizer: DownloadOrganizer.run, organize_files, organize_folders *)

Idle == [pc |-> "idle", dry_run |-> FALSE, include_folders |-> FALSE,
         todo |-> {}, start |-> <<>>, files_stats |-> NewStats,
         interrupted |-> FALSE]

\* organizer = DownloadOrganizer(config); organizer.run(include_folders,
\* dry_run): a new instance with fresh statistics; organize_files lists the
\* source directory once
StartRun(dry_run, include_folders) ==
    /\ run.pc = "idle"
    /\ Len(hist) < MaxRuns
    /\ \A t \in DOMAIN handler : handler[t].pc = "idle"
    /\ queue = <<>>
    /\ run' = [pc |-> "files", dry_run |-> dry_run,
               include_folders |-> include_folders, todo |-> DOMAIN src,
               start |-> <<src, dstDirs, dst>>, files_stats |-> NewStats,
               interrupted |-> FALSE]
    /\ stats' = NewStats
    /\ UNCHANGED <<config, src, dstDirs, dst, watchVars,
                   probe, nextId, faults, dst0, moves, hist>>

\* one iteration of the loop of organize_files, for the listed entry name
FilesStep(name, fault) ==
    /\ run.pc = "files"
    /\ name \in run.todo
    /\ run' = [run EXCEPT !.todo = @ \ {name}]
    /\ IF ~(name \in DOMAIN src /\ src[name].kind = "file")
       THEN /\ fault = "none"
            /\ UNCHANGED <<src, dstDirs, dst, stats, moves, faults>>
       ELSE IF ShouldSkipFile(config, name)
       THEN /\ fault = "none"
            /\ stats' = [stats EXCEPT !.skipped = @ + 1]
            /\ UNCHANGED <<src, dstDirs, dst, moves, faults>>
       ELSE LET g == GetDestinationForFile(config, stats, name)
                m == MoveFile(config, [Here EXCEPT !.stats = g.stats], name,
                              g.folder, run.dry_run, fault)
            IN  /\ CanFail(config, g.folder, run.dry_run, fault)
                /\ SetWorld(m.w)
                /\ faults' = faults + Cost(fault)
                /\ moves' = moves \cup {MoveRecord(Len(hist) + 1, "file", name,
                                      src[name], g.folder, run.dry_run, m)}
    /\ UNCHANGED <<config, watchVars, probe, nextId, dst0,
                   hist>>

\* the end of organize_files: organize_folders lists the source directory
\* again if include_folders, else the summary follows
EndFiles ==
    /\ run.pc = "files"
    /\ run.todo = {}
    /\ run' = IF run.include_folders
              THEN [run EXCEPT !.pc = "folders", !.todo = DOMAIN src,
                               !.files_stats = stats]
              ELSE [run EXCEPT !.pc = "summary", !.files_stats = stats]
    /\ UNCHANGED <<config, src, dstDirs, dst, stats, watchVars, probe, nextId, faults, dst0, moves, hist>>

\* a choice of bucket with the two branches exchanged
FolderBucketSwapped(cfg, name, e) ==
    IF IsCompressedFolder(cfg, name, e)
    THEN Get(Get(cfg, "folders", EmptyDict), "regular_destination", "Folders")
    ELSE Get(Get(cfg, "folders", EmptyDict), "compressed_destination",
             "Compressed Folders")

\* the bucket organize_folders moves a directory to
FolderBucket(cfg, name, e) ==
    IF IsCompressedFolder(cfg, name, e)
    THEN Get(Get(cfg, "folders", EmptyDict), "compressed_destination",
             "Compressed Folders")
    ELSE Get(Get(cfg, "folders", EmptyDict), "regular_destination", "Folders")

\* one iteration of the loop of organize_folders
FoldersStep(name, fault) ==
    /\ run.pc = "folders"
    /\ name \in run.todo
    /\ run' = [run EXCEPT !.todo = @ \ {name}]
    /\ IF ~(name \in DOMAIN src /\ src[name].kind = "dir")
       THEN /\ fault = "none"
            /\ UNCHANGED <<src, dstDirs, dst, stats, moves, faults>>
       ELSE IF ShouldSkipFile(config, name)
       THEN /\ fault = "none"
            /\ stats' = [stats EXCEPT !.skipped = @ + 1]
            /\ UNCHANGED <<src, dstDirs, dst, moves, faults>>
       ELSE LET folder == FolderBucket(config, name, src[name])
                m == MoveFolder(config, Here, name, folder, run.dry_run, fault)
            IN  /\ CanFail(config, folder, run.dry_run, fault)
                /\ SetWorld(m.w)
                /\ faults' = faults + Cost(fault)
                /\ moves' = moves \cup {MoveRecord(Len(hist) + 1, "dir", name,
                                      src[name], folder, run.dry_run, m)}
    /\ UNCHANGED <<config, watchVars, probe, nextId, dst0,
                   hist>>

EndFolders ==
    /\ run.pc = "folders"
    /\ run.todo = {}
    /\ run' = [run EXCEPT !.pc = "summary"]
    /\ UNCHANGED <<config, src, dstDirs, dst, stats, watchVars, probe, nextId, faults, dst0, moves, hist>>

\* print_summary, the end of run: the process exits
Summary ==
    /\ run.pc = "summary"
    /\ hist' = Append(hist, [dry_run |-> run.dry_run,
                             include_folders |-> run.include_folders,
                             start |-> run.start,
                             files_stats |-> run.files_stats,
                             stats |-> stats])
    /\ run' = Idle
    /\ UNCHANGED <<config, src, dstDirs, dst, stats, watchVars, probe, nextId, faults, dst0, moves>>

----------------------------------------------------------------------------
(* The configurations and filesystems the behaviours start from. *)

\* the category table of the test suite's configuration, with a category
\* for archives as in the shipped configuration
Table ==
    << <<"pdf", [extensions |-> {".pdf"}, destination |-> "PDF"]>>,
       <<"images", [extensions |-> {".jpg", ".png"}, destination |-> "Images"]>>,
       <<"archives", [extensions |-> {".zip"}, destination |-> "Compressed"]>> >>

SettingKeys == {"create_directories", "handle_conflicts", "skip_hidden_files"}

\* settings: the defaults (every key absent), or one key set to False
SettingsChoices ==
    {EmptyDict} \cup {[k \in {key} |-> FALSE] : key \in SettingKeys}

Config(settings) ==
    [source_directory |-> "downloads", base_destination |-> "storage",
     file_types |-> Table, other_destination |-> "Other",
     folders |-> [compressed_destination |-> "Compressed Folders",
                  regular_destination |-> "Folders"],
     settings |-> settings]

Configs == {Config(s) : s \in SettingsChoices}

ReportPdf == Nm("report", <<>>, ".pdf")

\* the entries the source directory can hold
Pool ==
    (ReportPdf :> File(1))
    @@ (Nm("report", <<1>>, ".pdf") :> File(2))
    @@ (Nm("pic", <<>>, ".JPG") :> File(3))
    @@ (Nm(".DS_Store", <<>>, "") :> File(4))
    @@ (Nm("proj", <<>>, "") :> Dir(5, <<".pdf">>))
    @@ (Nm("bundle", <<>>, "") :> Dir(6, <<".txt", ".ZIP">>))
    @@ (Nm(".cache", <<>>, "") :> Dir(7, <<>>))

Sources ==
    {[n \in S |-> Pool[n]] :
        S \in {T \in SUBSET DOMAIN Pool : Cardinality(T) <= MaxSrc}}

\* the destination trees: nothing yet, or a PDF folder that holds an old
\* report.pdf and an old report_1.pdf, and a Folders folder that holds proj
Dests ==
    { [dirs |-> {}, dst |-> EmptyDict],
      [dirs |-> {"PDF", "Folders"},
       dst |-> (<<"PDF", ReportPdf>> :> File(11))
               @@ (<<"PDF", Renamed(ReportPdf, 1)>> :> File(12))
               @@ (<<"Folders", Nm("proj", <<>>, "")>> :> Dir(13, <<>>))] }

Threads == {1, 2}

\* no event: the callback is not running
NoEvent ==
    [no |-> 0, type |-> "none", name |-> ReportPdf, is_directory |-> FALSE,
     pending |-> {}]

HandlerIdle == [pc |-> "idle", event |-> NoEvent, size1 |-> 0, outcome |-> ""]

Init ==
    /\ config \in Configs
    /\ src \in Sources
    /\ \E t \in Dests : dstDirs = t.dirs /\ dst = t.dst /\ dst0 = t.dst
    /\ stats = NewStats
    /\ run = Idle
    /\ processing = {}
    /\ queue = <<>>
    /\ handler = [t \in Threads |-> HandlerIdle]
    /\ delivered = 0
    /\ evlog = <<>>
    /\ probe = <<>>
    /\ nextId = 21
    /\ faults = 0
    /\ moves = {}
    /\ hist = <<>>

\* the user downloads a file: a new top-level file appears in the source
Download(name, size) ==
    /\ run.pc = "idle"
    /\ nextId - 21 < MaxCreated
    /\ name \notin DOMAIN src
    /\ src' = Put(src, name, Sized(nextId, size))
    /\ nextId' = nextId + 1
    /\ UNCHANGED <<config, dstDirs, dst, stats, run, watchVars, probe, faults, dst0, moves, hist>>

Next ==
    \/ \E d \in BOOLEAN, f \in BOOLEAN : StartRun(d, f)
    \/ \E n \in DOMAIN Pool, x \in Faults : FilesStep(n, x)
    \/ EndFiles
    \/ \E n \in DOMAIN Pool, x \in Faults : FoldersStep(n, x)
    \/ EndFolders
    \/ Summary
    \/ \E n \in {x \in DOMAIN Pool : Pool[x].kind = "file"} : Download(n, 1)

Spec == Init /\ [][Next]_vars

----------------------------------------------------------------------------
(* Properties of the batch organizer, checked under Spec. *)

\* the tag of the moves of the organizer instance that owns stats
CurrentTag == IF run.pc = "idle" THEN Len(hist) ELSE Len(hist) + 1

\* the live moves that succeeded
Landed == {m \in moves : m.ok /\ ~m.dry_run}

\* C1 (no-overwrite): with conflict handling enabled, every entry the
\* destination held before the organizer acted is still there unchanged,
\* every entry a move brought is present under the name the move resolved
\* to, and no two moves into one folder resolved to the same name nor to a
\* name that was there before: N moves of one name into one folder leave N
\* distinct entries.
NoOverwrite ==
    Setting(config, "handle_conflicts") =>
        /\ \A p \in DOMAIN dst0 : p \in DOMAIN dst /\ dst[p] = dst0[p]
        /\ \A m \in Landed :
              /\ m.folder \in dstDirs
              /\ <<m.folder, m.target>> \in DOMAIN dst
              /\ <<m.folder, m.target>> \notin DOMAIN dst0
              /\ dst[<<m.folder, m.target>>].id = m.id
        /\ \A m1, m2 \in Landed :
              (m1 # m2 /\ m1.folder = m2.folder) => m1.target # m2.target

\* two files of one name were moved into a folder that held that name before
NoOverwriteWitness ==
    /\ Setting(config, "handle_conflicts")
    /\ \E m1, m2 \in Landed :
          /\ m1.tag # m2.tag
          /\ m1.kind = "file"
          /\ m1.name = m2.name
          /\ m1.folder = m2.folder
          /\ <<m1.folder, m1.name>> \in DOMAIN dst0

\* C6 (conflict counter): with conflict handling enabled, conflicts_resolved
\* of an organizer instance equals the number of its mover calls whose
\* desired destination path existed, however many suffixes each call probed.
ConflictsCounted ==
    Setting(config, "handle_conflicts") =>
        stats.conflicts_resolved =
            Cardinality({m \in moves : m.tag = CurrentTag /\ m.taken})

\* one instance made a call that probed past suffix 1 and a call whose
\* desired path was free
ConflictsCountedWitness ==
    /\ Setting(config, "handle_conflicts")
    /\ \E m1, m2 \in moves :
          /\ m1.tag = CurrentTag /\ m2.tag = CurrentTag
          /\ m1.taken /\ ~m2.taken
          /\ m1.target.sfx # <<>>
          /\ m1.target.sfx[Len(m1.target.sfx)] >= 2
    /\ stats.conflicts_resolved = 1

\* the entries of the listing the files pass of the current run has
\* handled, and those its folders pass has handled
FilesDone ==
    IF run.pc = "files" THEN DOMAIN run.start[1] \ run.todo
    ELSE DOMAIN run.start[1]

FoldersDone ==
    IF run.pc = "folders" THEN DOMAIN run.start[1] \ run.todo
    ELSE IF run.pc = "summary" /\ run.include_folders THEN DOMAIN run.start[1]
    ELSE {}

\* the entries of kind k among S that the skip rule lets through
Eligible(S, k) ==
    {n \in S : run.start[1][n].kind = k /\ ~ShouldSkipFile(config, n)}

\* the folder a pass sends the entry n of the listing to
Bucket(n) ==
    IF run.start[1][n].kind = "file"
    THEN Classify(config, n).folder
    ELSE FolderBucket(config, n, run.start[1][n])

\* C9 (dry-run non-mutation): during and at the end of a dry run the source
\* directory, the set of destination folders and the destination entries
\* are those of the start of the run, while every non-skipped file handled
\* has increased files_moved by 1, every non-skipped directory handled has
\* increased folders_moved by 1, and each has been given its final path: the
\* desired name, or with conflict handling a name free in the destination.
DryRunFrame ==
    (run.pc # "idle" /\ run.dry_run) =>
        /\ <<src, dstDirs, dst>> = run.start
        /\ stats.files_moved = Cardinality(Eligible(FilesDone, "file"))
        /\ stats.folders_moved = Cardinality(Eligible(FoldersDone, "dir"))
        /\ stats.errors = 0
        /\ \A n \in Eligible(FilesDone, "file") \cup Eligible(FoldersDone, "dir") :
              \E m \in moves :
                 /\ m.tag = CurrentTag /\ m.name = n /\ m.ok /\ m.dry_run
                 /\ m.folder = Bucket(n)
                 /\ IF Setting(config, "handle_conflicts")
                    THEN /\ ~Exists(dstDirs, dst, m.folder, m.target)
                         /\ m.taken <=> m.target # n
                    ELSE m.target = n

\* a dry run with folders reached its summary having counted a file and a
\* directory whose names were taken, with the destination folder of another
\* file still missing
DryRunFrameWitness ==
    /\ run.pc = "summary" /\ run.dry_run /\ run.include_folders
    /\ stats.files_moved >= 2 /\ stats.folders_moved >= 1
    /\ stats.conflicts_resolved >= 2
    /\ \E m \in moves : m.tag = CurrentTag /\ m.folder \notin dstDirs

\* the finished runs i (dry) and j (live) started from the same filesystem
SameStart(i, j) ==
    /\ hist[i].dry_run /\ ~hist[j].dry_run
    /\ hist[i].start = hist[j].start

\* C10 as claimed (dry-run/live agreement): a dry run and a live run from the
\* same filesystem and configuration end with the same files_moved.
DryLiveAgree ==
    \A i, j \in DOMAIN hist :
        SameStart(i, j) => hist[i].stats.files_moved = hist[j].stats.files_moved

\* C10 as amended: the dry run's files_moved equals the live run's
\* files_moved plus the errors its files pass counted, so the two agree
\* exactly when no move of the live files pass fails.
DryLiveAgreeUpToErrors ==
    \A i, j \in DOMAIN hist :
        SameStart(i, j) =>
            /\ hist[i].stats.files_moved =
                  hist[j].stats.files_moved + hist[j].files_stats.errors
            /\ hist[i].files_stats.errors = 0

\* a dry run and a live run from the same start, the live one with a failed
\* file move and a successful one
DryLiveAgreeWitness ==
    \E i, j \in DOMAIN hist :
        /\ SameStart(i, j)
        /\ hist[j].files_stats.errors >= 1
        /\ hist[j].stats.files_moved >= 1

\* the calls of the mover the organizer instance that owns stats has made
Mine == {m \in moves : m.tag = CurrentTag}

\* C11 (per-item failure isolation): every call of the mover returns; a call
\* that failed has increased errors by exactly 1 and neither files_moved nor
\* folders_moved, so errors counts the failed calls and the two counters the
\* successful calls of their kind; and a pass handles every entry of its
\* listing, whatever has failed before: after the files pass every
\* non-skipped file of the listing has had its call of the mover, after
\* the folders pass every non-skipped directory.
FailureIsolated ==
    /\ stats.errors = Cardinality({m \in Mine : ~m.ok})
    /\ stats.files_moved = Cardinality({m \in Mine : m.ok /\ m.kind = "file"})
    /\ stats.folders_moved = Cardinality({m \in Mine : m.ok /\ m.kind = "dir"})
    /\ run.pc \in {"folders", "summary"} =>
          \A n \in Eligible(DOMAIN run.start[1], "file") :
             \E m \in Mine : m.name = n /\ m.kind = "file"
    /\ run.pc = "summary" /\ run.include_folders =>
          \A n \in Eligible(DOMAIN run.start[1], "dir") :
             \E m \in Mine : m.name = n /\ m.kind = "dir"

\* a live run has reached its summary: the move of its file failed, and the
\* folders pass that followed has moved a directory
FailureIsolatedWitness ==
    /\ run.pc = "summary" /\ ~run.dry_run /\ run.include_folders
    /\ stats.errors = 1
    /\ stats.files_moved = 0
    /\ stats.folders_moved = 1
    /\ \E m \in Mine : ~m.ok /\ m.kind = "file"

\* the files pass of a live run is over and none of its moves failed
AfterCleanFilesPass ==
    /\ run.pc \in {"folders", "summary"}
    /\ ~run.dry_run
    /\ run.files_stats.errors = 0

\* the files of the listing that the files pass does not skip
ListedFiles == Eligible(DOMAIN run.start[1], "file")

\* C12 (files-pass postcondition): after a live files pass in which no move
\* failed, every non-skipped file of the listing is gone from the source and
\* is in the folder of its category (the fallback folder when no category
\* lists its extension) under the name its move resolved to, the directories
\* the folders pass has not handled are as they were, files_moved is the
\* number of those files, and the count of every category is the number of
\* them classified into it.
FilesPassPost ==
    AfterCleanFilesPass =>
        /\ \A n \in ListedFiles :
              /\ n \notin DOMAIN src
              /\ \E m \in Mine :
                    /\ m.name = n /\ m.ok
                    /\ m.folder = Classify(config, n).folder
                    /\ Exists(dstDirs, dst, m.folder, m.target)
                    /\ dst[<<m.folder, m.target>>] = run.start[1][n]
        /\ \A n \in DOMAIN run.start[1] \ FoldersDone :
              run.start[1][n].kind = "dir" =>
                 n \in DOMAIN src /\ src[n] = run.start[1][n]
        /\ run.files_stats.files_moved = Cardinality(ListedFiles)
        /\ run.files_stats.folders_moved = 0
        /\ \A c \in DOMAIN run.files_stats.categories
                    \cup {Classify(config, n).label : n \in ListedFiles} :
              Get(run.files_stats.categories, c, 0) =
                 Cardinality({n \in ListedFiles : Classify(config, n).label = c})

\* a live files pass has moved two files, one of them to the fallback
\* folder and one under a name other than its own
FilesPassPostWitness ==
    /\ AfterCleanFilesPass
    /\ run.files_stats.files_moved = 2
    /\ Get(run.files_stats.categories, "other", 0) = 1
    /\ \E m \in Mine : m.ok /\ m.target # m.name

\* the sum of the counts of a categories dict
RECURSIVE Total(_)
Total(cats) ==
    IF DOMAIN cats = {} THEN 0
    ELSE LET c == CHOOSE x \in DOMAIN cats : TRUE
         IN  cats[c] + Total(Without(cats, c))

\* the dot-prefixed entries of kind k among S
Hidden(S, k) == {n \in S : run.start[1][n].kind = k /\ StartsWithDot(n)}

\* C13 (hidden-entry skip): during and at the end of a run, with
\* skip_hidden_files enabled no dot-prefixed entry has been handed to the
\* mover, none has appeared in the destination and each is in the source as
\* it was; skipped is the number of dot-prefixed files the files pass has
\* handled plus the number of dot-prefixed directories the folders pass has
\* handled, and every other counter is accounted for by the calls of the
\* mover, none of which is for such an entry. With skip_hidden_files
\* disabled skipped stays 0 and each such entry handled has had its call of
\* the mover to the folder any entry of its kind and name goes to.
HiddenSkipped ==
    run.pc # "idle" =>
        IF Setting(config, "skip_hidden_files")
        THEN /\ \A m \in moves : ~StartsWithDot(m.name)
             /\ \A p \in DOMAIN dst : StartsWithDot(p[2]) => p \in DOMAIN dst0
             /\ \A n \in DOMAIN run.start[1] :
                   StartsWithDot(n) => n \in DOMAIN src /\ src[n] = run.start[1][n]
             /\ stats.skipped = Cardinality(Hidden(FilesDone, "file"))
                                   + Cardinality(Hidden(FoldersDone, "dir"))
             /\ stats.files_moved =
                   Cardinality({m \in Mine : m.ok /\ m.kind = "file"})
             /\ stats.folders_moved =
                   Cardinality({m \in Mine : m.ok /\ m.kind = "dir"})
             /\ stats.errors = Cardinality({m \in Mine : ~m.ok})
             /\ stats.conflicts_resolved =
                   Cardinality({m \in Mine : m.taken
                                   /\ Setting(config, "handle_conflicts")})
             /\ Total(stats.categories) =
                   Cardinality({m \in Mine : m.kind = "file"})
        ELSE /\ stats.skipped = 0
             /\ \A n \in Hidden(FilesDone, "file") \cup Hidden(FoldersDone, "dir") :
                   \E m \in Mine :
                      /\ m.name = n
                      /\ m.folder = Bucket(n)
                      /\ m.ok /\ ~m.dry_run =>
                            /\ n \notin DOMAIN src
                            /\ Exists(dstDirs, dst, m.folder, m.target)

\* a live run with folders has reached its summary with skip_hidden_files
\* enabled, having skipped a dot-prefixed file and a dot-prefixed directory
HiddenSkippedWitness ==
    /\ run.pc = "summary" /\ ~run.dry_run /\ run.include_folders
    /\ Setting(config, "skip_hidden_files")
    /\ stats.skipped = 2
    /\ Cardinality(Hidden(DOMAIN src, "file")) = 1
    /\ Cardinality(Hidden(DOMAIN src, "dir")) = 1

\* with skip_hidden_files disabled a dot-prefixed file and a dot-prefixed
\* directory have been moved
HiddenMovedWitness ==
    /\ run.pc = "summary" /\ ~run.dry_run
    /\ ~Setting(config, "skip_hidden_files")
    /\ \E m1, m2 \in Mine :
          /\ m1.ok /\ m1.kind = "file" /\ StartsWithDot(m1.name)
          /\ m2.ok /\ m2.kind = "dir" /\ StartsWithDot(m2.name)

\* the entry a successful move brought is at the path the move resolved to,
\* or inside the directory that was there
Located(m) ==
    /\ Exists(dstDirs, dst, m.folder, m.target)
    /\ LET e == dst[<<m.folder, m.target>>]
       IN  e.id = m.id \/ \E x \in e.inside : x.entry.id = m.id

\* the directories of the listing that the folders pass does not skip
ListedFolders == Eligible(DOMAIN run.start[1], "dir")

\* the folders pass of a live run is over and none of its moves failed
AfterCleanFoldersPass ==
    /\ run.pc = "summary"
    /\ run.include_folders
    /\ ~run.dry_run
    /\ stats.errors = run.files_stats.errors

\* C16 (folders pass): the folders pass runs only in a run with
\* include_folders and only after the files pass: before it no directory
\* has been handed to the mover and folders_moved is 0. After a live folders
\* pass in which no move failed, every non-skipped directory of the listing
\* is gone from the source and in the compressed bucket if the predicate
\* holds of it, in the regular bucket if not; folders_moved is the number of
\* those directories, and files_moved and the category counts are those the
\* files pass ended with.
FoldersPassPost ==
    run.pc # "idle" =>
        /\ run.pc = "folders" => run.include_folders
        /\ (run.pc = "files" \/ ~run.include_folders) =>
              /\ stats.folders_moved = 0
              /\ \A m \in Mine : m.kind = "file"
        /\ AfterCleanFoldersPass =>
              /\ \A n \in ListedFolders :
                    /\ n \notin DOMAIN src
                    /\ \E m \in Mine :
                          /\ m.name = n /\ m.kind = "dir" /\ m.ok
                          /\ m.folder =
                                IF IsCompressedFolder(config, n, run.start[1][n])
                                THEN "Compressed Folders"
                                ELSE "Folders"
                          /\ Located(m)
              /\ stats.folders_moved = Cardinality(ListedFolders)
              /\ stats.files_moved = run.files_stats.files_moved
              /\ stats.categories = run.files_stats.categories

\* a live run has moved a directory that holds an archive to the compressed
\* bucket and another directory to the regular bucket
FoldersPassPostWitness ==
    /\ AfterCleanFoldersPass
    /\ stats.folders_moved = 2
    /\ \E m1, m2 \in Mine :
          /\ m1.ok /\ m1.folder = "Compressed Folders"
          /\ m2.ok /\ m2.folder = "Folders"

----------------------------------------------------------------------------
(* The batch organizer under a user interrupt. KeyboardInterrupt is raised *)
(* in the main thread between two steps of the interpreter; no except      *)
(* clause of the mover catches it (it is not an Exception), so it leaves   *)
(* the loop and reaches the except KeyboardInterrupt clause of run, which  *)
(* prints the summary. os.rename, by which shutil.move moves an entry, is  *)
(* not divided by it.                                                      *)

\* the run after the interrupt: the entries of todo were not reached
Interrupted(todo) ==
    [run EXCEPT !.pc = "summary", !.interrupted = TRUE, !.todo = todo]

\* the interrupt arrives between two iterations of a loop
Interrupt ==
    /\ run.pc \in {"files", "folders"}
    /\ run' = Interrupted(run.todo)
    /\ UNCHANGED <<config, src, dstDirs, dst, stats, watchVars, probe, nextId,
                   faults, dst0, moves, hist>>

\* the interrupt arrives inside the mover, called for the listed entry name:
\* "before" shutil.move has run, or "after" it has returned and before the
\* increment of files_moved or folders_moved (the logger is called between
\* the two)
InterruptMove(name, point) ==
    LET kind == IF run.pc = "files" THEN "file" ELSE "dir"
        g == IF kind = "file"
             THEN GetDestinationForFile(config, stats, name)
             ELSE [folder |-> FolderBucket(config, name, src[name]),
                   stats |-> stats]
        counter == IF kind = "file" THEN "files_moved" ELSE "folders_moved"
        m == MoveEntry(config, [Here EXCEPT !.stats = g.stats], name, g.folder,
                       run.dry_run, "none", counter)
    IN  /\ run.pc \in {"files", "folders"}
        /\ name \in run.todo
        /\ name \in DOMAIN src /\ src[name].kind = kind
        /\ ~ShouldSkipFile(config, name)
        /\ run' = Interrupted(run.todo \ {name})
        /\ IF point = "before"
           THEN /\ stats' = g.stats
                /\ UNCHANGED <<src, dstDirs, dst, moves>>
           ELSE /\ m.ok
                /\ SetWorld([m.w EXCEPT !.stats[counter] = @ - 1])
                /\ moves' = moves \cup {MoveRecord(Len(hist) + 1, kind, name,
                                      src[name], g.folder, run.dry_run, m)}
        /\ UNCHANGED <<config, watchVars, probe, nextId, faults, dst0, hist>>

\* one run of the organizer, which the user may interrupt
InterruptNext ==
    \/ \E d \in BOOLEAN, f \in BOOLEAN : hist = <<>> /\ StartRun(d, f)
    \/ \E n \in DOMAIN Pool, x \in Faults : FilesStep(n, x)
    \/ EndFiles
    \/ \E n \in DOMAIN Pool, x \in Faults : FoldersStep(n, x)
    \/ EndFolders
    \/ Summary
    \/ Interrupt
    \/ \E n \in DOMAIN Pool, p \in {"before", "after"} : InterruptMove(n, p)

InterruptSpec == Init /\ [][InterruptNext]_vars

\* C14 as claimed (interrupted pass): when an interrupt has ended a live
\* run, the run is at its summary, every entry moved before is at its
\* destination, files_moved and folders_moved count exactly the entries that
\* were moved, every entry of the listing is either in the source as it was
\* or wholly moved, and the entries not reached are in the source.
InterruptedReport ==
    (run.interrupted /\ ~run.dry_run) =>
        /\ run.pc = "summary"
        /\ \A m \in Landed : Located(m)
        /\ stats.files_moved =
              Cardinality({m \in Mine : m.ok /\ m.kind = "file"})
        /\ stats.folders_moved =
              Cardinality({m \in Mine : m.ok /\ m.kind = "dir"})
        /\ \A n \in DOMAIN run.start[1] :
              \/ n \in DOMAIN src /\ src[n] = run.start[1][n]
              \/ /\ n \notin DOMAIN src
                 /\ \E m \in Mine : m.name = n /\ m.ok /\ Located(m)
        /\ \A n \in run.todo : n \in DOMAIN src /\ src[n] = run.start[1][n]

\* what holds of an interrupted live run: all of the above but the counts;
\* the two counters together fall short of the entries moved by at most
\* one, the entry whose move the interrupt followed
InterruptedReportShort ==
    (run.interrupted /\ ~run.dry_run) =>
        /\ run.pc = "summary"
        /\ \A m \in Landed : Located(m)
        /\ LET counted == stats.files_moved + stats.folders_moved
               moved == Cardinality({m \in Mine : m.ok})
           IN  counted \in {moved - 1, moved}
        /\ \A n \in DOMAIN run.start[1] :
              \/ n \in DOMAIN src /\ src[n] = run.start[1][n]
              \/ /\ n \notin DOMAIN src
                 /\ \E m \in Mine : m.name = n /\ m.ok /\ Located(m)
        /\ \A n \in run.todo : n \in DOMAIN src /\ src[n] = run.start[1][n]

----------------------------------------------------------------------------
(* The conflict resolver called directly, as test_resolve_conflict and     *)
(* test_multiple_conflict_resolution call it: _resolve_conflict(path) and  *)
(* resolved.write_text(...) on a folder that holds some of the names.      *)

TestDir == "test_dir"

TestTxt == Nm("test", <<>>, ".txt")

\* the names the folder can hold at the start
Candidates ==
    {TestTxt, Renamed(TestTxt, 1), Renamed(TestTxt, 2), Renamed(TestTxt, 3),
     Renamed(Renamed(TestTxt, 1), 1)}

\* the paths the calls ask for
Desired == {TestTxt, Renamed(TestTxt, 1)}

\* the names the folder holds
Held(dirs, d, folder) == {n \in {p[2] : p \in DOMAIN d} : Exists(dirs, d, folder, n)}

ResolveInit ==
    /\ config = Config(EmptyDict)
    /\ src = EmptyDict
    /\ dstDirs = {TestDir}
    /\ \E T \in SUBSET Candidates :
          /\ Cardinality(T) <= MaxTaken
          /\ dst = [p \in {TestDir} \X T |-> File(11)]
          /\ dst0 = dst
    /\ stats = NewStats
    /\ run = Idle
    /\ processing = {}
    /\ queue = <<>>
    /\ handler = [t \in Threads |-> HandlerIdle]
    /\ delivered = 0
    /\ evlog = <<>>
    /\ probe = <<>>
    /\ nextId = 21
    /\ faults = 0
    /\ moves = {}
    /\ hist = <<>>

\* a resolver that reserves the name it returns by creating it
ResolveAndReserve(w, folder, name) ==
    LET r == ResolveConflict(w.dirs, w.dst, w.stats, folder, name)
    IN  [name |-> r.name,
         w |-> [w EXCEPT !.stats = r.stats,
                         !.dst = Put(@, <<folder, r.name>>, File(0))]]

\* organizer._resolve_conflict(folder / name): the returned name and the
\* world after the call
ResolveCall(w, folder, name) ==
    LET r == ResolveConflict(w.dirs, w.dst, w.stats, folder, name)
    IN  [name |-> r.name, w |-> [w EXCEPT !.stats = r.stats]]

\* resolved = organizer._resolve_conflict(path)
CallResolve(name) ==
    /\ Len(probe) < MaxProbes
    /\ LET r == ResolveCall(Here, TestDir, name)
       IN  /\ SetWorld(r.w)
           /\ probe' = Append(probe,
                 [op |-> "call", desired |-> name, result |-> r.name,
                  before |-> Held(dstDirs, dst, TestDir),
                  after |-> Held(r.w.dirs, r.w.dst, TestDir),
                  counted |-> r.w.stats.conflicts_resolved
                                - stats.conflicts_resolved])
    /\ UNCHANGED <<config, run, watchVars, nextId, faults,
                   dst0, moves, hist>>

\* resolved.write_text(...): the caller creates the path the last call
\* returned
CreateResolved ==
    /\ Len(probe) < MaxProbes
    /\ probe # <<>>
    /\ probe[Len(probe)].op = "call"
    /\ LET name == probe[Len(probe)].result
       IN  /\ dst' = Put(dst, <<TestDir, name>>, File(nextId))
           /\ probe' = Append(probe,
                 [op |-> "create", desired |-> name, result |-> name,
                  before |-> Held(dstDirs, dst, TestDir),
                  after |-> Held(dstDirs, dst, TestDir) \cup {name},
                  counted |-> 0])
    /\ nextId' = nextId + 1
    /\ UNCHANGED <<config, src, dstDirs, stats, run, watchVars, faults, dst0, moves, hist>>

ResolveNext ==
    \/ \E n \in Desired : CallResolve(n)
    \/ CreateResolved

ResolveSpec == ResolveInit /\ [][ResolveNext]_vars

\* the suffix number of a result: 0 for the desired name itself
SuffixNo(c) == IF c.result = c.desired THEN 0 ELSE c.result.sfx[Len(c.result.sfx)]

Calls == {i \in DOMAIN probe : probe[i].op = "call"}

\* C4 (resolve): every call returns the desired name when it does not exist,
\* and otherwise the desired name with suffix _k for the smallest k >= 1 such
\* that the suffixed name does not exist; the returned name does not exist
\* when the call returns.
ResolveSmallestFree ==
    \A i \in Calls :
        LET c == probe[i]
        IN  /\ c.desired \notin c.before => c.result = c.desired
            /\ c.desired \in c.before =>
                  \E k \in 1..(Cardinality(c.before) + 1) :
                     /\ c.result = Renamed(c.desired, k)
                     /\ \A j \in 1..(k - 1) : Renamed(c.desired, j) \in c.before
            /\ c.result \notin c.after

\* a call returned suffix 3 past two taken suffixes, and a call returned its
\* desired name
ResolveSmallestFreeWitness ==
    \E i, j \in Calls :
        /\ probe[i].desired \in probe[i].before /\ SuffixNo(probe[i]) = 3
        /\ probe[j].result = probe[j].desired

\* C5 (idempotence, advance): a call leaves the folder as it was, so a second
\* call for the same desired name right after it returns the same name; when
\* the caller creates the returned name in between, the second call returns
\* another name, with the next higher suffix number that is unused.
ResolveIdempotent ==
    /\ \A i \in Calls : probe[i].after = probe[i].before
    /\ \A i \in Calls :
          (i + 1 \in Calls /\ probe[i + 1].desired = probe[i].desired)
              => probe[i + 1].result = probe[i].result
    /\ \A i \in Calls :
          (/\ i + 2 \in Calls
           /\ probe[i + 1].op = "create"
           /\ probe[i + 2].desired = probe[i].desired)
              => LET a == probe[i]
                     b == probe[i + 2]
                 IN  /\ b.result # a.result
                     /\ SuffixNo(b) > SuffixNo(a)
                     /\ b.result = Renamed(b.desired, SuffixNo(b))
                     /\ b.result \notin b.before
                     /\ \A j \in (SuffixNo(a) + 1)..(SuffixNo(b) - 1) :
                           Renamed(b.desired, j) \in b.before

\* test.txt and test_2.txt exist: two calls in a row return test_1.txt, and
\* once that is created the next call skips to test_3.txt
ResolveIdempotentWitness ==
    /\ Len(probe) = 4
    /\ probe[1].op = "call" /\ probe[2].op = "call"
    /\ probe[3].op = "create" /\ probe[4].op = "call"
    /\ probe[1].desired = probe[2].desired
    /\ probe[2].desired = probe[4].desired
    /\ SuffixNo(probe[1]) = 1 /\ SuffixNo(probe[4]) = 3

----------------------------------------------------------------------------
(* The classifier called directly, as test_get_destination_for_pdf calls   *)
(* it, with category tables drawn from a bounded set.                      *)

CategoryNames == <<"pdf", "images", "docs", "misc">>

CategoryDests == <<"PDF", "Images", "Documents", "Misc">>

\* the extension lists a category can have
ExtensionLists ==
    {{".pdf"}, {".PDF"}, {".jpg"}, {".pdf", ".PDF"}, {".pdf", ".jpg"}}

\* category i with the extensions E, with or without a destination key
Infos(i, E) ==
    {[extensions |-> E, destination |-> CategoryDests[i]], [extensions |-> E]}

\* the tables of n categories
RECURSIVE Tables(_)
Tables(n) ==
    IF n = 0 THEN {<<>>}
    ELSE {Append(t, <<CategoryNames[n], x>>) :
             t \in Tables(n - 1),
             x \in UNION {Infos(n, E) : E \in ExtensionLists}}

\* a configuration with the table ft, with other_destination set or absent
ClassifyConfigs ==
    UNION {{[base_destination |-> "storage", file_types |-> ft,
             other_destination |-> "Misc"],
            [base_destination |-> "storage", file_types |-> ft]} :
              ft \in UNION {Tables(n) : n \in 0..MaxCats}}
      \cup {[base_destination |-> "storage"]}

\* the file names the classifier is asked about
ClassifyNames ==
    {Nm("a", <<>>, e) : e \in {".pdf", ".PDF", ".Pdf", ".jpg", ".JPG", ".xyz", ""}}

ClassifyInit ==
    /\ config \in ClassifyConfigs
    /\ src = EmptyDict
    /\ dstDirs = {}
    /\ dst = EmptyDict
    /\ dst0 = EmptyDict
    /\ stats = NewStats
    /\ run = Idle
    /\ processing = {}
    /\ queue = <<>>
    /\ handler = [t \in Threads |-> HandlerIdle]
    /\ delivered = 0
    /\ evlog = <<>>
    /\ probe = <<>>
    /\ nextId = 21
    /\ faults = 0
    /\ moves = {}
    /\ hist = <<>>

\* dest = organizer._get_destination_for_file(Path(name)): the history keeps
\* the folder returned and the category label whose count went up
CallClassify(name) ==
    /\ Len(probe) < MaxClassified
    /\ LET g == GetDestinationForFile(config, stats, name)
           label == CHOOSE l \in DOMAIN g.stats.categories :
                       Get(stats.categories, l, 0) # g.stats.categories[l]
       IN  /\ stats' = g.stats
           /\ probe' = Append(probe, [name |-> name, folder |-> g.folder,
                                      label |-> label])
    /\ UNCHANGED <<config, src, dstDirs, dst, run, watchVars,
                   nextId, faults, dst0, moves, hist>>

ClassifyNext == \E n \in ClassifyNames : CallClassify(n)

ClassifySpec == ClassifyInit /\ [][ClassifyNext]_vars

\* the categories of the table whose listed extensions contain e
Listing(e) ==
    {i \in 1..Len(FileTypes(config)) :
        "extensions" \in DOMAIN FileTypes(config)[i][2]
            /\ e \in FileTypes(config)[i][2].extensions}

\* the categories with a listed extension equal to e ignoring case
ListingAnyCase(e) ==
    {i \in 1..Len(FileTypes(config)) :
        "extensions" \in DOMAIN FileTypes(config)[i][2]
            /\ \E x \in FileTypes(config)[i][2].extensions : Lower(x) = Lower(e)}

\* the call c put its file into the first category of M, or, M being empty,
\* into "other" and the fallback folder
AssignedFirstOf(c, M) ==
    IF M = {}
    THEN /\ c.label = "other"
         /\ c.folder = IF "other_destination" \in DOMAIN config
                       THEN config.other_destination ELSE "Other"
    ELSE LET i == CHOOSE x \in M : \A y \in M : x <= y
             cat == FileTypes(config)[i]
         IN  /\ c.label = cat[1]
             /\ c.folder = IF "destination" \in DOMAIN cat[2]
                           THEN cat[2].destination ELSE cat[1]

\* C7 (classification): every call assigns the file to the first category,
\* in the table's order, whose extension list contains the file's extension
\* (read in lower case, as the classifier reads it), with that category's
\* destination (its name when it has none), and to "other" and the fallback
\* folder (default "Other") when no list contains it; two calls for one name
\* give the same answer whatever was classified in between, and each call
\* adds exactly 1 to the count of the label it assigned.
ClassifyFirstMatch ==
    /\ \A i \in DOMAIN probe :
          AssignedFirstOf(probe[i], Listing(Lower(probe[i].name.ext)))
    /\ \A i, j \in DOMAIN probe :
          probe[i].name = probe[j].name =>
              /\ probe[i].folder = probe[j].folder
              /\ probe[i].label = probe[j].label
    /\ \A l \in DOMAIN stats.categories :
          stats.categories[l] =
              Cardinality({i \in DOMAIN probe : probe[i].label = l})

\* both categories list the extension and the first one was assigned; a
\* second call, for a name no category lists, went to "other"
ClassifyFirstMatchWitness ==
    /\ Len(probe) = 2
    /\ Cardinality(Listing(Lower(probe[1].name.ext))) = 2
    /\ probe[1].label = "pdf"
    /\ probe[2].label = "other"

\* C8 as claimed (case-insensitive comparison): names that differ only in
\* the case of their extension are classified alike, and a file is assigned
\* to the first category with a listed extension equal to the file's
\* extension ignoring case, whichever side is written in upper case.
ClassifyIgnoresCase ==
    /\ \A i, j \in DOMAIN probe :
          Lower(probe[i].name.ext) = Lower(probe[j].name.ext) =>
              /\ probe[i].folder = probe[j].folder
              /\ probe[i].label = probe[j].label
    /\ \A i \in DOMAIN probe :
          AssignedFirstOf(probe[i], ListingAnyCase(probe[i].name.ext))

----------------------------------------------------------------------------
(* 4.5 Watcher: DownloadEventHandler and the observer that calls it.       *)
(* DownloadWatcher.start hands one handler to one watchdog Observer. The   *)
(* observer keeps the delivered events in a queue and one thread of it     *)
(* takes them out and runs the callback of each to its end before the      *)
(* next; an exception that leaves a callback ends that thread.             *)

\* sizes a file grows through while it is written
MaxSize == 2

TempExtensions == {".crdownload", ".tmp", ".part", ".download"}

\* _is_temporary_file that compares the suffix as it is written
IsTemporaryFileAsWritten(name) ==
    \/ name.ext \in TempExtensions
    \/ name.base \in TildeBases
    \/ StartsWithDot(name)

\* _is_temporary_file(file_path)
IsTemporaryFile(name) ==
    \/ Lower(name.ext) \in TempExtensions
    \/ name.base \in TildeBases
    \/ StartsWithDot(name)

\* _organize_file without the test that the file still exists
OrganizeFileUnchecked(cfg, w, name, fault) ==
    LET g == GetDestinationForFile(cfg, w.stats, name)
        m == MoveFile(cfg, [w EXCEPT !.stats = g.stats], name, g.folder,
                      FALSE, fault)
    IN  [outcome |-> IF m.ok THEN "moved" ELSE "failed", w |-> m.w,
         folder |-> g.folder, m |-> m]

\* _organize_file(file_path), when nothing is raised out of it: the outcome,
\* the world after it and, when the mover was called, its folder and result.
\* The tables of the model give every category a non-empty destination, so
\* "if dest_folder" holds.
OrganizeFile(cfg, w, name, fault) ==
    LET none == [ok |-> FALSE, target |-> name, w |-> w]
    IN  IF name \notin DOMAIN w.src
        THEN [outcome |-> "gone", w |-> w, folder |-> "", m |-> none]
        ELSE IF ShouldSkipFile(cfg, name)
        THEN [outcome |-> "skipped", w |-> w, folder |-> "", m |-> none]
        ELSE LET g == GetDestinationForFile(cfg, w.stats, name)
                 m == MoveFile(cfg, [w EXCEPT !.stats = g.stats], name,
                               g.folder, FALSE, fault)
             IN  [outcome |-> IF m.ok THEN "moved" ELSE "failed", w |-> m.w,
                  folder |-> g.folder, m |-> m]

\* a finally clause that is only run when the organize step did not raise
DiscardUnlessRaised(P, path, outcome) ==
    IF outcome = "raised" THEN P ELSE P \ {path}

\* finally: self.processing.discard(file_path)
Discard(P, path, outcome) == P \ {path}

\* the callbacks that are running
Running == {t \in Threads : handler[t].pc \notin {"idle", "raised"}}

\* the events delivered whose callback has not returned
Pending ==
    {queue[i].no : i \in DOMAIN queue} \cup {handler[t].event.no : t \in Running}

\* the callback of thread t returns
Return(t, outcome) ==
    /\ handler' = [handler EXCEPT ![t] = HandlerIdle]
    /\ evlog' = Append(evlog, [event |-> handler[t].event, outcome |-> outcome])

\* the names the events of the model are about, and what is_directory says
WatchPool ==
    (ReportPdf :> "file")
    @@ (Nm("movie", <<>>, ".TMP") :> "file")
    @@ (Nm("proj", <<>>, "") :> "dir")
    @@ (Nm("pic", <<>>, ".JPG") :> "file")
    @@ (Nm("video", <<>>, ".crdownload") :> "file")
    @@ (Nm("~lock", <<>>, "") :> "file")
    @@ (Nm(".DS_Store", <<>>, "") :> "file")

\* the names of the events of WatchSpec
WatchNames == {ReportPdf, Nm("movie", <<>>, ".TMP"), Nm("proj", <<>>, "")}

\* the operating system writes to a file of the source
Write(name) ==
    /\ name \in DOMAIN src
    /\ src[name].kind = "file"
    /\ src[name].size < MaxSize
    /\ src' = [src EXCEPT ![name].size = @ + 1]
    /\ UNCHANGED <<config, dstDirs, dst, stats, run, watchVars, probe, nextId,
                   faults, dst0, moves, hist>>

\* the observer's emitter queues an event
Deliver(type, name) ==
    /\ delivered < MaxEvents
    /\ delivered' = delivered + 1
    /\ queue' = Append(queue, [no |-> delivered + 1, type |-> type,
                               name |-> name,
                               is_directory |-> WatchPool[name] = "dir",
                               pending |-> Pending])
    /\ UNCHANGED <<config, src, dstDirs, dst, stats, run, processing, handler,
                   evlog, probe, nextId, faults, dst0, moves, hist>>

\* the start of a callback, up to its first wait: on_created up to
\* time.sleep(1), on_modified up to the first size sample of _is_file_stable
Enter(t) ==
    LET event == Head(queue)
        begin(pc, size) == [pc |-> pc, event |-> event, size1 |-> size,
                            outcome |-> ""]
        end(outcome) == Append(evlog, [event |-> event, outcome |-> outcome])
    IN  /\ queue' = Tail(queue)
        /\ IF event.is_directory \/ IsTemporaryFile(event.name)
           THEN handler' = handler /\ evlog' = end("ignored")
           ELSE IF event.type = "created"
           THEN /\ handler' = [handler EXCEPT ![t] = begin("sleep", 0)]
                /\ evlog' = evlog
           ELSE IF event.name \notin DOMAIN src
           THEN handler' = handler /\ evlog' = end("missing")
           ELSE /\ handler' = [handler EXCEPT
                       ![t] = begin("sample", src[event.name].size)]
                /\ evlog' = evlog
        /\ UNCHANGED <<config, src, dstDirs, dst, stats, run, processing,
                       delivered, probe, nextId, faults, dst0, moves, hist>>

\* the observer's thread takes the next event when the callback before it
\* has returned
Dispatch(t) ==
    /\ queue # <<>>
    /\ \A u \in Threads : handler[u].pc = "idle"
    /\ Enter(t)

\* on_created after the sleep: if file_path in self.processing: return
Check(t) ==
    /\ handler[t].pc = "sleep"
    /\ IF handler[t].event.name \in processing
       THEN Return(t, "suppressed")
       ELSE handler' = [handler EXCEPT ![t].pc = "add"] /\ evlog' = evlog
    /\ UNCHANGED <<config, src, dstDirs, dst, stats, run, processing, queue,
                   delivered, probe, nextId, faults, dst0, moves, hist>>

\* _is_file_stable that takes an empty file for stable
SampleEmptyIsStable(t) ==
    LET name == handler[t].event.name
        stable == /\ name \in DOMAIN src
                  /\ handler[t].size1 = src[name].size
    IN  /\ handler[t].pc = "sample"
        /\ IF ~stable THEN Return(t, "unstable")
           ELSE IF name \in processing THEN Return(t, "suppressed")
           ELSE handler' = [handler EXCEPT ![t].pc = "add"] /\ evlog' = evlog
        /\ UNCHANGED <<config, src, dstDirs, dst, stats, run, processing,
                       queue, delivered, probe, nextId, faults, dst0, moves,
                       hist>>

\* on_modified after the wait of _is_file_stable: the second sample (an
\* OSError when the file is gone), the comparison, and the test of
\* self.processing
Sample(t) ==
    LET name == handler[t].event.name
        stable == /\ name \in DOMAIN src
                  /\ handler[t].size1 = src[name].size
                  /\ handler[t].size1 > 0
    IN  /\ handler[t].pc = "sample"
        /\ IF ~stable THEN Return(t, "unstable")
           ELSE IF name \in processing THEN Return(t, "suppressed")
           ELSE handler' = [handler EXCEPT ![t].pc = "add"] /\ evlog' = evlog
        /\ UNCHANGED <<config, src, dstDirs, dst, stats, run, processing,
                       queue, delivered, probe, nextId, faults, dst0, moves,
                       hist>>

\* self.processing.add(file_path)
Add(t) ==
    /\ handler[t].pc = "add"
    /\ processing' = processing \cup {handler[t].event.name}
    /\ handler' = [handler EXCEPT ![t].pc = "organize"]
    /\ UNCHANGED <<config, src, dstDirs, dst, stats, run, queue, delivered,
                   evlog, probe, nextId, faults, dst0, moves, hist>>

\* try: self._organize_file(file_path). fault "raise" is an exception that
\* leaves _organize_file (file_path.exists() is outside its try, and its
\* except clause catches Exception only).
Organize(t, fault) ==
    LET name == handler[t].event.name
        o == OrganizeFile(config, Here, name, fault)
        e == IF name \in DOMAIN src THEN src[name] ELSE File(0)
    IN  /\ handler[t].pc = "organize"
        /\ IF fault = "raise"
           THEN /\ faults < MaxFaults
                /\ faults' = faults + 1
                /\ handler' = [handler EXCEPT ![t].pc = "finally",
                                              ![t].outcome = "raised"]
                /\ UNCHANGED <<src, dstDirs, dst, stats, moves>>
           ELSE /\ handler' = [handler EXCEPT ![t].pc = "finally",
                                              ![t].outcome = o.outcome]
                /\ SetWorld(o.w)
                /\ IF o.outcome \in {"moved", "failed"}
                   THEN /\ CanFail(config, o.folder, FALSE, fault)
                        /\ faults' = faults + Cost(fault)
                        /\ moves' = moves \cup
                              {MoveRecord(handler[t].event.no, "file", name, e,
                                          o.folder, FALSE, o.m)}
                   ELSE /\ fault = "none"
                        /\ UNCHANGED <<faults, moves>>
        /\ UNCHANGED <<config, run, processing, queue, delivered, evlog, probe,
                       nextId, dst0, hist>>

\* finally: the path is discarded and the callback returns, or the
\* exception goes on into the observer's thread
Finally(t) ==
    LET outcome == handler[t].outcome
    IN  /\ handler[t].pc = "finally"
        /\ processing' = Discard(processing, handler[t].event.name, outcome)
        /\ evlog' = Append(evlog, [event |-> handler[t].event,
                                   outcome |-> outcome])
        /\ handler' = [handler EXCEPT
                          ![t] = IF outcome = "raised"
                                 THEN [HandlerIdle EXCEPT !.pc = "raised"]
                                 ELSE HandlerIdle]
        /\ UNCHANGED <<config, src, dstDirs, dst, stats, run, queue, delivered,
                       probe, nextId, faults, dst0, moves, hist>>

\* the observer's thread
Observer == 1

\* the source when the watcher starts
WatchSources == {EmptyDict, ReportPdf :> File(1)}

\* the configurations of the watcher: the default settings, or no
\* destination folder is created
WatchConfigs ==
    {Config(EmptyDict), Config("create_directories" :> FALSE)}

WatchInit ==
    /\ config \in WatchConfigs
    /\ src \in WatchSources
    /\ \E t \in Dests : dstDirs = t.dirs /\ dst = t.dst /\ dst0 = t.dst
    /\ stats = NewStats
    /\ run = Idle
    /\ processing = {}
    /\ queue = <<>>
    /\ handler = [t \in Threads |-> HandlerIdle]
    /\ delivered = 0
    /\ evlog = <<>>
    /\ probe = <<>>
    /\ nextId = 21
    /\ faults = 0
    /\ moves = {}
    /\ hist = <<>>

WatchNext ==
    \/ \E n \in {x \in WatchNames : WatchPool[x] = "file"},
          z \in {0, 1} : Download(n, z)
    \/ \E n \in WatchNames : Write(n)
    \/ \E y \in {"created", "modified"}, n \in WatchNames : Deliver(y, n)
    \/ Dispatch(Observer)
    \/ Check(Observer)
    \/ Sample(Observer)
    \/ Add(Observer)
    \/ \E x \in Faults \cup {"raise"} : Organize(Observer, x)
    \/ Finally(Observer)

WatchSpec == WatchInit /\ [][WatchNext]_vars

\* The watcher with its threads running: the observer's thread, while it
\* lives, goes on with the callback it is in and takes the next event when
\* the callback has returned (weak fairness of its steps). The events are creations and modifications of
\* two files that are not transient.
LiveNames == {ReportPdf, Nm("pic", <<>>, ".JPG")}

\* the watcher starts on a source that holds the two files, or the first
LiveInit ==
    /\ config = Config(EmptyDict)
    /\ src \in {ReportPdf :> File(1),
                (ReportPdf :> File(1)) @@ (Nm("pic", <<>>, ".JPG") :> File(3))}
    /\ dstDirs = {}
    /\ dst = EmptyDict
    /\ dst0 = EmptyDict
    /\ stats = NewStats
    /\ run = Idle
    /\ processing = {}
    /\ queue = <<>>
    /\ handler = [t \in Threads |-> HandlerIdle]
    /\ delivered = 0
    /\ evlog = <<>>
    /\ probe = <<>>
    /\ nextId = 21
    /\ faults = 0
    /\ moves = {}
    /\ hist = <<>>

\* a step of the observer's thread outside the organize step
ObserverStep ==
    \/ Dispatch(Observer)
    \/ Check(Observer)
    \/ Sample(Observer)
    \/ Add(Observer)
    \/ Finally(Observer)

\* the organize step, which can always be taken by a callback that is at
\* it, is taken: the callback does not stay at it for ever
OrganizeReturns == []<>(handler[Observer].pc # "organize")

LiveNext ==
    \/ \E y \in {"created", "modified"}, n \in LiveNames : Deliver(y, n)
    \/ ObserverStep
    \/ \E x \in Faults \cup {"raise"} : Organize(Observer, x)

LiveSpec ==
    LiveInit /\ [][LiveNext]_vars /\ WF_vars(ObserverStep) /\ OrganizeReturns

\* The handler called from two threads at once, as the callbacks of a
\* handler are when it is scheduled on more than one observer: a thread that
\* is idle takes the next event while the other is inside its callback. The
\* handler holds no lock, so its steps interleave between any two
\* statements that wait or call out.
Take(t) ==
    /\ queue # <<>>
    /\ handler[t].pc = "idle"
    /\ Enter(t)

ConcNext ==
    \/ \E y \in {"created", "modified"}, n \in LiveNames : Deliver(y, n)
    \/ \E t \in Threads :
          \/ Take(t)
          \/ Check(t)
          \/ Sample(t)
          \/ Add(t)
          \/ \E x \in Faults \cup {"raise"} : Organize(t, x)
          \/ Finally(t)

ConcSpec == LiveInit /\ [][ConcNext]_vars

\* The watcher on a source that holds partial downloads, a lock file, a
\* hidden file and a folder beside a finished download, with events for each
\* of them.
FilterNames ==
    {ReportPdf, Nm("movie", <<>>, ".TMP"), Nm("video", <<>>, ".crdownload"),
     Nm("~lock", <<>>, ""), Nm(".DS_Store", <<>>, ""), Nm("proj", <<>>, "")}

FilterSource ==
    [n \in FilterNames |->
        IF WatchPool[n] = "dir" THEN Dir(5, <<>>)
        ELSE IF n = ReportPdf THEN File(1)
        ELSE File(2)]

FilterInit ==
    /\ config \in {Config(EmptyDict), Config("skip_hidden_files" :> FALSE)}
    /\ src = FilterSource
    /\ dstDirs = {}
    /\ dst = EmptyDict
    /\ dst0 = EmptyDict
    /\ stats = NewStats
    /\ run = Idle
    /\ processing = {}
    /\ queue = <<>>
    /\ handler = [t \in Threads |-> HandlerIdle]
    /\ delivered = 0
    /\ evlog = <<>>
    /\ probe = <<>>
    /\ nextId = 21
    /\ faults = 0
    /\ moves = {}
    /\ hist = <<>>

FilterNext ==
    \/ \E y \in {"created", "modified"}, n \in FilterNames : Deliver(y, n)
    \/ ObserverStep
    \/ \E x \in Faults \cup {"raise"} : Organize(Observer, x)

FilterSpec == FilterInit /\ [][FilterNext]_vars

\* One organizer instance over its lifetime: the organizer the watcher owns
\* handles events, and organize_files is called on it for passes over the
\* source, live or dry, one after the other. The statistics are those of
\* the instance and are never reset.
OrganizeFilesPass(dry_run) ==
    /\ run.pc = "idle"
    /\ Len(hist) < MaxRuns
    /\ \A t \in Threads : handler[t].pc = "idle"
    /\ run' = [pc |-> "files", dry_run |-> dry_run, include_folders |-> FALSE,
               todo |-> DOMAIN src, start |-> <<src, dstDirs, dst>>,
               files_stats |-> stats, interrupted |-> FALSE]
    /\ UNCHANGED <<config, src, dstDirs, dst, stats, watchVars, probe, nextId,
                   faults, dst0, moves, hist>>

AccountInit ==
    /\ config \in WatchConfigs
    /\ src \in {ReportPdf :> File(1),
                (ReportPdf :> File(1)) @@ (Nm("pic", <<>>, ".JPG") :> File(3))}
    /\ dstDirs = {}
    /\ dst = EmptyDict
    /\ dst0 = EmptyDict
    /\ stats = NewStats
    /\ run = Idle
    /\ processing = {}
    /\ queue = <<>>
    /\ handler = [t \in Threads |-> HandlerIdle]
    /\ delivered = 0
    /\ evlog = <<>>
    /\ probe = <<>>
    /\ nextId = 21
    /\ faults = 0
    /\ moves = {}
    /\ hist = <<>>

AccountNext ==
    \/ \E d \in BOOLEAN : OrganizeFilesPass(d)
    \/ \E n \in LiveNames, x \in Faults : FilesStep(n, x)
    \/ EndFiles
    \/ Summary
    \/ \E y \in {"created", "modified"}, n \in LiveNames : Deliver(y, n)
    \/ run.pc = "idle" /\ Dispatch(Observer)
    \/ Check(Observer)
    \/ Sample(Observer)
    \/ Add(Observer)
    \/ \E x \in Faults \cup {"raise"} : Organize(Observer, x)
    \/ Finally(Observer)

AccountSpec == AccountInit /\ [][AccountNext]_vars

----------------------------------------------------------------------------
(* Properties of the watcher, checked under WatchSpec. *)

\* the callbacks that have returned, by position in evlog
Returned == DOMAIN evlog

\* the calls of the mover made by the callbacks of the events in E
MovesOf(E) == {m \in moves : m.tag \in E}

\* two creation events for one path that the handler did not ignore, the
\* second delivered while the first was queued or in its callback, and both
\* callbacks have returned
Debounced(i, j) ==
    /\ i < j
    /\ evlog[i].event.type = "created"
    /\ evlog[j].event.type = "created"
    /\ evlog[i].event.name = evlog[j].event.name
    /\ evlog[i].event.no \in evlog[j].event.pending
    /\ evlog[i].outcome # "ignored"

\* nothing of the environment makes a move fail: no failure was injected
\* and the mover creates the destination folders
NothingFails == faults = 0 /\ Setting(config, "create_directories")

\* C2: when two creation events are delivered for one path, the second
\* before the callback of the first has returned, then once both callbacks
\* have returned no file has been moved twice by them, files_moved counts
\* one for each file moved and errors one for each failed move, the two
\* callbacks have counted no error unless the environment made a move fail
\* (when the first has moved the file and no file of that name has been
\* downloaded since, the second finds it gone and calls no mover), and the
\* Processing Set is empty when no callback is running.
WatchDebounce ==
    /\ stats.files_moved = Cardinality({m \in moves : m.ok})
    /\ stats.errors = Cardinality({m \in moves : ~m.ok})
    /\ \A i \in Returned, j \in Returned :
          Debounced(i, j) =>
             LET M == MovesOf({evlog[i].event.no, evlog[j].event.no})
             IN  /\ \A a \in M, b \in M : a.ok /\ b.ok /\ a.id = b.id => a = b
                 /\ NothingFails => \A m \in M : m.ok
                 /\ NothingFails /\ evlog[i].outcome = "moved"
                          /\ nextId = 21 =>
                       evlog[j].outcome = "gone" /\ Cardinality(M) = 1
                 /\ Running = {} => processing = {}

\* the first callback has moved the file, the second, delivered during the
\* first, has found it gone: files_moved is 1 and errors is 0
WatchDebounceWitness ==
    /\ Len(evlog) = 2
    /\ Debounced(1, 2)
    /\ evlog[1].outcome = "moved"
    /\ evlog[2].outcome = "gone"
    /\ stats.files_moved = 1
    /\ stats.errors = 0
    /\ Running = {}
    /\ processing = {}

\* C3: the Processing Set holds exactly the paths of the callbacks that are
\* between their add and the end of their finally clause, whatever the
\* outcome of the organize step; so it is empty whenever no callback is
\* running, and no callback has been suppressed by a path left in it.
ProcessingNeverLeaks ==
    /\ processing = {handler[t].event.name :
                        t \in {u \in Threads :
                                 handler[u].pc \in {"organize", "finally"}}}
    /\ Running = {} => processing = {}
    /\ \A i \in Returned : evlog[i].outcome # "suppressed"

\* three callbacks for one path have added it: a creation whose move
\* failed, a modification that then moved the file, and a creation that
\* found the file gone; the set is empty after them
ProcessingNeverLeaksWitness ==
    /\ Len(evlog) = 3
    /\ \A i \in 1..3 : evlog[i].event.name = ReportPdf
    /\ evlog[1].event.type = "created" /\ evlog[1].outcome = "failed"
    /\ evlog[2].event.type = "modified" /\ evlog[2].outcome = "moved"
    /\ evlog[3].event.type = "created" /\ evlog[3].outcome = "gone"
    /\ Running = {}
    /\ processing = {}

\* a callback whose organize step raised has returned
ProcessingRaisedWitness ==
    /\ \E i \in Returned : evlog[i].outcome = "raised"
    /\ processing = {}

----------------------------------------------------------------------------
(* The compressed-folder predicate called directly, as                     *)
(* test_is_compressed_folder calls it, on folders and category tables      *)
(* drawn from bounded sets.                                                *)

\* category tables: the one of the model's configuration, one with two
\* categories whose destination says "compressed", one with none, and one
\* whose archive category has no destination
CompressedTables ==
    { Table,
      << <<"archives", [extensions |-> {".zip"},
                        destination |-> "compressed files"]>>,
         <<"packed", [extensions |-> {".pdf"}, destination |-> "Compressed"]>> >>,
      << <<"archives", [extensions |-> {".zip"}, destination |-> "Archives"]>> >>,
      << <<"archives", [extensions |-> {".zip"}]>> >> }

CompressedConfigs ==
    {[base_destination |-> "storage", file_types |-> ft] : ft \in CompressedTables}
       \cup {[base_destination |-> "storage"]}

\* what rglob('*') can yield: files by suffix, and "!" for the error
RECURSIVE Walks(_)
Walks(n) ==
    IF n = 0 THEN {<<>>}
    ELSE Walks(n - 1) \cup
         {Append(w, x) : w \in {v \in Walks(n - 1) : Len(v) = n - 1},
                         x \in {".txt", ".ZIP", "!"}}

\* the folders the predicate is asked about
CompressedFolderNames == {Nm("dir", <<>>, e) : e \in {"", ".zip", ".pdf"}}

CompressedInit ==
    /\ config \in CompressedConfigs
    /\ src = EmptyDict
    /\ dstDirs = {}
    /\ dst = EmptyDict
    /\ dst0 = EmptyDict
    /\ stats = NewStats
    /\ run = Idle
    /\ processing = {}
    /\ queue = <<>>
    /\ handler = [t \in Threads |-> HandlerIdle]
    /\ delivered = 0
    /\ evlog = <<>>
    /\ probe = <<>>
    /\ nextId = 21
    /\ faults = 0
    /\ moves = {}
    /\ hist = <<>>

\* organizer._is_compressed_folder(folder): the history keeps the answer
CallIsCompressedFolder(name, walk) ==
    /\ Len(probe) < MaxChecked
    /\ probe' = Append(probe,
                       [name |-> name, walk |-> walk,
                        result |-> IsCompressedFolder(config, name, Dir(1, walk))])
    /\ UNCHANGED <<config, src, dstDirs, dst, stats, run, watchVars, nextId,
                   faults, dst0, moves, hist>>

CompressedNext ==
    \E n \in CompressedFolderNames, w \in Walks(MaxWalk) :
        CallIsCompressedFolder(n, w)

CompressedSpec == CompressedInit /\ [][CompressedNext]_vars

\* the extensions listed by the categories of the compressed kind: those
\* whose destination text contains "compressed"
ListedCompressed ==
    UNION {Get(FileTypes(config)[i][2], "extensions", {}) :
             i \in {j \in 1..Len(FileTypes(config)) :
                      Get(FileTypes(config)[j][2], "destination", "")
                         \in CompressedDests}}

\* the folder's own name ends in a compressed extension
NamedCompressed(c) == Lower(c.name.ext) \in ListedCompressed

\* the traversal yields, at position i, a file of a compressed extension
HoldsCompressed(c, i) == c.walk[i] # "!" /\ Lower(c.walk[i]) \in ListedCompressed

\* C15 (compressed-folder predicate): every call returns, and it answers
\* true only for a folder whose name ends in a compressed extension or that
\* holds a file of a compressed extension (no false positive); when the
\* traversal meets no error it answers true exactly for those folders; when
\* the traversal is run and meets an error before it has found such a file
\* it answers false.
CompressedExact ==
    \A k \in DOMAIN probe :
        LET c == probe[k]
            holds == \E i \in DOMAIN c.walk : HoldsCompressed(c, i)
            errs == {i \in DOMAIN c.walk : c.walk[i] = "!"}
        IN  /\ c.result \in BOOLEAN
            /\ c.result => NamedCompressed(c) \/ holds
            /\ errs = {} => (c.result <=> NamedCompressed(c) \/ holds)
            /\ ~NamedCompressed(c)
                  /\ (\E i \in errs : \A j \in 1..(i - 1) : ~HoldsCompressed(c, j))
                  => ~c.result

\* one call answered true for a plainly named folder that holds an archive
\* below another file, and one answered false for a folder whose traversal
\* met an error before the archive it holds
CompressedExactWitness ==
    /\ Len(probe) = 2
    /\ probe[1].name.ext = "" /\ probe[1].walk = <<".txt", ".ZIP">>
    /\ probe[1].result
    /\ probe[2].name.ext = "" /\ probe[2].walk = <<".txt", "!", ".ZIP">>
    /\ ~probe[2].result

----------------------------------------------------------------------------
(* Liveness of the watcher, checked under LiveSpec. *)

\* the callback of event no has returned
Handled(no) == \E i \in DOMAIN evlog : evlog[i].event.no = no

\* the callback of the creation event no is at its organize step and the
\* file is there
AtOrganize(no) ==
    \E t \in Threads :
        /\ handler[t].pc = "organize"
        /\ handler[t].event.no = no
        /\ handler[t].event.type = "created"
        /\ handler[t].event.name \in DOMAIN src

\* the mover was called for event no: the file was moved and files_moved
\* increased, or the move failed and errors increased
MovedOrCounted(no) == \E m \in moves : m.tag = no

\* C17 as claimed (watch liveness): every creation event whose callback
\* reaches the organize step with the file still there leads to a call of
\* the mover for it, which moves the file or counts an error; and every
\* event delivered is handled in the end, whatever the organize steps before
\* it did.
WatchLive ==
    \A no \in 1..MaxEvents :
        /\ AtOrganize(no) ~> MovedOrCounted(no)
        /\ (delivered >= no) ~> Handled(no)

----------------------------------------------------------------------------
(* Concurrent callbacks, checked under ConcSpec. *)

\* the threads whose callback is at the organize step for the path
Organizing(path) ==
    {t \in Threads : handler[t].pc = "organize" /\ handler[t].event.name = path}

ProcessingSuppressesWitness ==
    /\ \E i \in DOMAIN evlog : evlog[i].outcome = "suppressed"
    /\ \E a \in LiveNames, b \in LiveNames :
          a # b /\ Organizing(a) # {} /\ Organizing(b) # {}

\* a callback is suppressed by an entry for its own path only: one that
\* returns at the test of the Processing Set finds its path in the set
SuppressedByOwnPath ==
    [][\A t \in Threads :
          /\ handler[t].pc \in {"sleep", "sample"}
          /\ handler'[t].pc = "idle"
          /\ evlog'[Len(evlog')].outcome = "suppressed"
          => handler[t].event.name \in processing]_vars

----------------------------------------------------------------------------
(* The gates of the callbacks, checked under WatchSpec. *)

\* the outcomes of a modification callback that returns before the test of
\* the Processing Set: a directory or transient path, a path that is
\* missing, and samples that differ, are zero or could not both be taken
Gated == {"ignored", "missing", "unstable"}

\* the filesystem, the statistics and the Processing Set
Effects == <<src, dstDirs, dst, stats, processing, moves>>

\* the callback of thread t, for a modification event, is past its gate
PastGate(t) ==
    /\ handler[t].event.type = "modified"
    /\ handler[t].pc \in {"add", "organize", "finally"}

\* C19 (modification gate): the callback of a modification event goes on to
\* the organize step only when the event is for a path that is no directory
\* and not transient, that exists, and whose two size samples are equal and
\* greater than zero; a callback that returns for a missing path or for
\* samples that differ, are zero or failed has called no mover, and its
\* return leaves the filesystem, the statistics and the Processing Set as
\* they were.
ModificationGate ==
    /\ [](\A t \in Threads :
             PastGate(t) =>
                 /\ ~handler[t].event.is_directory
                 /\ ~IsTemporaryFile(handler[t].event.name)
                 /\ handler[t].size1 > 0)
    /\ [](\A i \in DOMAIN evlog :
             evlog[i].event.type = "modified" /\ evlog[i].outcome \in Gated
                 => MovesOf({evlog[i].event.no}) = {})
    /\ [][/\ \A t \in Threads :
                 ~PastGate(t) /\ PastGate(t)' =>
                     /\ handler[t].pc = "sample"
                     /\ handler[t].event.name \in DOMAIN src
                     /\ src[handler[t].event.name].size = handler[t].size1
          /\ Len(evlog') > Len(evlog)
                 /\ evlog'[Len(evlog')].event.type = "modified"
                 /\ evlog'[Len(evlog')].outcome \in Gated
               => UNCHANGED Effects]_vars

\* three modification events for report.pdf have been handled: two found
\* the file not stable (empty, or written to between the samples) and
\* returned, the third found it stable and moved it
ModificationGateWitness ==
    /\ Len(evlog) = 3
    /\ \A i \in 1..3 : evlog[i].event.type = "modified"
                       /\ evlog[i].event.name = ReportPdf
    /\ evlog[1].outcome = "unstable"
    /\ evlog[2].outcome = "unstable"
    /\ evlog[3].outcome = "moved"
    /\ \E m \in moves : m.tag = evlog[3].event.no /\ m.ok
    /\ stats.files_moved = 1

----------------------------------------------------------------------------
(* The transient filter, checked under FilterSpec. *)

\* the event is for a directory, or for a path with a partial-download
\* extension in any case, or with a name that starts with '~' or '.'
Transient(event) ==
    \/ event.is_directory
    \/ Lower(event.name.ext) \in {".crdownload", ".tmp", ".part", ".download"}
    \/ event.name.base \in TildeBases \cup DotBases

\* C20 (transient filter): a creation or modification event for a directory,
\* for a path with one of the extensions .crdownload, .tmp, .part, .download
\* in any case, or for a name that starts with '~' or '.', is ignored: no
\* callback waits or organizes for it, no mover is called for it, and the
\* step that takes it from the queue returns at once and leaves the
\* filesystem, every counter and the Processing Set unchanged.
TransientIgnored ==
    /\ [](\A t \in Threads : handler[t].pc # "idle" => ~Transient(handler[t].event))
    /\ [](\A i \in DOMAIN evlog :
             Transient(evlog[i].event) =>
                 /\ evlog[i].outcome = "ignored"
                 /\ MovesOf({evlog[i].event.no}) = {})
    /\ [][queue # <<>> /\ queue' = Tail(queue) /\ Transient(Head(queue)) =>
             /\ evlog' = Append(evlog, [event |-> Head(queue),
                                        outcome |-> "ignored"])
             /\ handler' = handler
             /\ UNCHANGED Effects]_vars

\* the events for the folder, the partial download written in upper case
\* and the lock file have been ignored, and all three are still in the
\* source with nothing counted
TransientIgnoredWitness ==
    /\ Len(evlog) = 3
    /\ evlog[1].event.name = Nm("proj", <<>>, "")
    /\ evlog[2].event.name = Nm("movie", <<>>, ".TMP")
    /\ evlog[2].event.type = "created"
    /\ evlog[3].event.name = Nm("~lock", <<>>, "")
    /\ evlog[3].event.type = "modified"
    /\ \A i \in 1..3 : evlog[i].outcome = "ignored"
    /\ src = FilterSource
    /\ stats = NewStats
    /\ processing = {}

\* the event for the hidden file has been ignored although hidden files are
\* not skipped by the configuration
TransientHiddenWitness ==
    /\ ~Setting(config, "skip_hidden_files")
    /\ \E i \in DOMAIN evlog :
          /\ evlog[i].event.name = Nm(".DS_Store", <<>>, "")
          /\ evlog[i].outcome = "ignored"
    /\ src = FilterSource

----------------------------------------------------------------------------
(* The statistics of one instance, checked under AccountSpec. *)

\* the counters of the statistics record that are numbers
Counters ==
    {"files_moved", "folders_moved", "errors", "skipped", "conflicts_resolved"}

\* C21 (statistics accounting): at every point between the files passes and
\* the organize steps of one organizer instance, and between the items of a
\* pass, the category counts add up to files_moved plus the failed file
\* moves, which are what errors counts when no folder is moved; and no
\* counter and no category count ever decreases.
StatsAccount ==
    /\ [](/\ stats.folders_moved = 0
          /\ Total(stats.categories) = stats.files_moved + stats.errors)
    /\ [][/\ \A c \in Counters : stats'[c] >= stats[c]
          /\ \A k \in DOMAIN stats.categories :
                /\ k \in DOMAIN stats'.categories
                /\ stats'.categories[k] >= stats.categories[k]]_vars

\* a dry pass has counted the file as moved, then the callback of one event
\* has failed to move it and the callback of another has moved it: three
\* classifications, two in files_moved and one in errors
StatsAccountWitness ==
    /\ Len(hist) = 1
    /\ hist[1].dry_run
    /\ hist[1].stats.files_moved = 1
    /\ \E i \in DOMAIN evlog, j \in DOMAIN evlog :
          i < j /\ evlog[i].outcome = "failed" /\ evlog[j].outcome = "moved"
    /\ stats.files_moved = 2
    /\ stats.errors = 1
    /\ Total(stats.categories) = 3

\* the same account in a batch run that also moves folders, checked under
\* Spec: the failed calls of the file mover are told from those of the
\* folder mover by the record of the calls
StatsAccountBatch ==
    Total(stats.categories) =
        stats.files_moved
          + Cardinality({m \in Mine : m.kind = "file" /\ ~m.ok})

====
